---- MODULE Spec2Model ----
(***************************************************************************)
(* A model of the Affirm Risk Simulator: the quantitative core             *)
(* (src/utils/simulation.ts: generateMockLoans, trainPDModel,              *)
(* runVasicekSimulation) and the React component that drives it            *)
(* (src/unnamed/part_000: App).                                            *)
(*                                                                         *)
(* Numbers.  The program computes in IEEE doubles; the model computes in   *)
(* fixed point over the integers and keeps the non-finite values of a      *)
(* JavaScript number apart from the finite ones:                           *)
(*   a JavaScript number is a pair <<tag, v>>, tag one of "num" (finite,   *)
(*   v its fixed-point value), "nan", "inf" (v its sign), "undefined"      *)
(*   (a read past the end of an array).                                    *)
(* Units: a uniform draw, rho, stressFactor, a probit score and Z are in   *)
(* thousandths; a probability is in thousandths (per mille); EAD is in     *)
(* whole dollars; LGD in tenths; the regression's intercept and beta in    *)
(* millionths.  A loss is exposure (dollars) times PD (per mille), i.e.    *)
(* in thousandths of a dollar.                                             *)
(* The field processingTime of a SimulationResult (a wall-clock            *)
(* difference, diagnostic only) is left out of the result record.          *)
(***************************************************************************)
EXTENDS Integers, Sequences, FiniteSets, TLC

VARIABLES
    call,            \* the core function being called and its arguments
    ret,             \* its outcome: pending, or returned with a value
    loans,           \* App: useState<Loan[]>([])
    isModelTrained,  \* App: useState(false)
    isSimulating,    \* App: useState(false)
    baselineResult,  \* App: useState<SimulationResult | null>(null)
    stressedResult,  \* App: useState<SimulationResult | null>(null)
    timers,          \* App: the pending setTimeout callbacks (their captured loans)
    trainCalls,      \* history: how many times App called trainPDModel
    simInputs,       \* history: the portfolio each call of the last run was given
    runs             \* history: how many runs App has started

vars == <<call, ret, loans, isModelTrained, isSimulating, baselineResult,
          stressedResult, timers, trainCalls, simInputs, runs>>

appVars == <<loans, isModelTrained, isSimulating, baselineResult,
             stressedResult, timers, trainCalls, simInputs, runs>>

(***************************************************************************)
(* Bounds of the model.                                                    *)
(***************************************************************************)
MaxGenCount == 2      \* generateMockLoans is called with count in -1..MaxGenCount
MaxTrainLoans == 2    \* trainPDModel is called with 0..MaxTrainLoans loans
MaxSimLoans == 3      \* runVasicekSimulation is called with 0..MaxSimLoans loans
MaxIter == 3          \* ... and with iterations in -1..MaxIter, every draw sequence
LongRun == 101        \* ... and with iterations = LongRun, one outlying draw
NUM_LOANS == 2        \* App's portfolio size (1000 in part_000:6), scaled down
ITERATIONS == 2       \* App's iteration count (10000 in part_000:7), scaled down
MaxRuns == 2          \* App: the button is clicked at most MaxRuns times

(***************************************************************************)
(* JavaScript numbers.                                                     *)
(***************************************************************************)
Num(v) == <<"num", v>>
NaN == <<"nan", 0>>
PosInf == <<"inf", 1>>
NegInf == <<"inf", -1>>
Undefined == <<"undefined", 0>>
IsNum(a) == a[1] = "num"
IsInf(a) == a[1] = "inf"

Sign(v) == IF v > 0 THEN 1 ELSE IF v < 0 THEN -1 ELSE 0

Max0(n) == IF n > 0 THEN n ELSE 0

\* a + b
Add(a, b) ==
    IF IsNum(a) /\ IsNum(b) THEN Num(a[2] + b[2])
    ELSE IF IsInf(a) /\ IsNum(b) THEN a
    ELSE IF IsNum(a) /\ IsInf(b) THEN b
    ELSE IF IsInf(a) /\ IsInf(b) /\ a[2] = b[2] THEN a
    ELSE NaN

\* a - b
Sub(a, b) ==
    IF IsNum(b) \/ IsInf(b) THEN Add(a, <<b[1], -b[2]>>) ELSE NaN

\* a * b, where a * b of the fixed-point values is scale times the result's
Mul(a, b, scale) ==
    IF IsNum(a) /\ IsNum(b) THEN Num((a[2] * b[2]) \div scale)
    ELSE IF (IsNum(a) \/ IsInf(a)) /\ (IsNum(b) \/ IsInf(b))
         THEN IF Sign(a[2]) * Sign(b[2]) = 0 THEN NaN
              ELSE <<"inf", Sign(a[2]) * Sign(b[2])>>
    ELSE NaN

\* a / b, where the result's fixed-point value is scale * a / b
Div(a, b, scale) ==
    IF IsNum(a) /\ IsNum(b)
    THEN IF b[2] # 0 THEN Num((a[2] * scale) \div b[2])
         ELSE IF a[2] = 0 THEN NaN ELSE <<"inf", Sign(a[2])>>
    ELSE IF IsInf(a) /\ IsNum(b)
         THEN <<"inf", a[2] * (IF b[2] < 0 THEN -1 ELSE 1)>>
    ELSE IF IsNum(a) /\ IsInf(b) THEN Num(0)
    ELSE NaN

\* the integer square root of n >= 0, by bisection on lo..hi
RECURSIVE ISqrtIn(_, _, _)
ISqrtIn(n, lo, hi) ==
    IF lo >= hi THEN lo
    ELSE LET mid == (lo + hi + 1) \div 2
         IN  IF mid * mid <= n THEN ISqrtIn(n, mid, hi)
             ELSE ISqrtIn(n, lo, mid - 1)

\* Math.sqrt(a), a and the result in units of 1/scale
Sqrt(a, scale) ==
    IF IsNum(a)
    THEN IF a[2] < 0 THEN NaN ELSE Num(ISqrtIn(a[2] * scale, 0, 46340))
    ELSE IF a = PosInf THEN PosInf
    ELSE NaN

\* a library function given by its values at the knots of tab (pairs <<x, y>>,
\* x ascending), linear between two knots and constant outside them
Interp(tab, x) ==
    IF x <= tab[1][1] THEN tab[1][2]
    ELSE IF x >= tab[Len(tab)][1] THEN tab[Len(tab)][2]
    ELSE LET k == CHOOSE k \in 1..(Len(tab) - 1) :
                      tab[k][1] <= x /\ x < tab[k + 1][1]
         IN  tab[k][2] + ((x - tab[k][1]) * (tab[k + 1][2] - tab[k][2]))
                             \div (tab[k + 1][1] - tab[k][1])

(***************************************************************************)
(* Math.random(): a uniform draw in [0, 1), in thousandths.                *)
(***************************************************************************)
RandomGrid == {0, 500, 999}

(***************************************************************************)
(* Loan (types.ts) and generateMockLoans.                                  *)
(***************************************************************************)
LGD == 6              \* 0.6, in tenths

\* latent_risk = -3 + (0.8 * prior_late_payments) + (Math.random() * 1.5), in millionths
LatentRisk(prior_late_payments, u) ==
    (800000 * prior_late_payments) - 3000000 + (u * 1500)

\* A faulty variant of MockLoan: ids counted from 1.
MockLoanIdPlusOne(i, d) ==
    [id |-> i + 1,
     EAD |-> 500 + ((d[1] * 4500) \div 1000),
     LGD |-> LGD,
     prior_late_payments |-> (d[2] * 6) \div 1000,
     pd_base |-> Num(0),
     defaulted |-> LatentRisk((d[2] * 6) \div 1000, d[3]) > 0]

\* The loan that iteration i of the loop pushes, d = <<u1, u2, u3>> its three draws.
MockLoan(i, d) ==
    [id |-> i,
     EAD |-> 500 + ((d[1] * 4500) \div 1000),
     LGD |-> LGD,
     prior_late_payments |-> (d[2] * 6) \div 1000,
     pd_base |-> Num(0),
     defaulted |-> LatentRisk((d[2] * 6) \div 1000, d[3]) > 0]

\* for (let i = 0; i < count; i++) loans.push(...)
RECURSIVE GenLoop(_, _, _, _)
GenLoop(i, count, draws, acc) ==
    IF i < count
    THEN GenLoop(i + 1, count, draws, Append(acc, MockLoan(i, draws[i + 1])))
    ELSE acc

generateMockLoans(count, draws) == GenLoop(0, count, draws, <<>>)

(***************************************************************************)
(* The outcome of a call.  No statement of simulation.ts throws, so every  *)
(* call returns.                                                           *)
(***************************************************************************)
Pending == [outcome |-> "pending"]
Returned(v) == [outcome |-> "returned", value |-> v]
\* ... with the final values of the function's local variables, for the claims about them
ReturnedWith(v, l) == [outcome |-> "returned", value |-> v, locals |-> l]
NoCall == [fn |-> "none"]
\* the null of useState<SimulationResult | null>(null)
Null == [null |-> TRUE]

AppInit ==
    /\ loans = <<>>
    /\ isModelTrained = FALSE
    /\ isSimulating = FALSE
    /\ baselineResult = Null
    /\ stressedResult = Null
    /\ timers = <<>>
    /\ trainCalls = 0
    /\ simInputs = <<>>
    /\ runs = 0

(***************************************************************************)
(* SpecGen: generateMockLoans applied to every count in -1..MaxGenCount    *)
(* and every sequence of draws from the grid.                              *)
(***************************************************************************)
GenDraws == RandomGrid \X RandomGrid \X RandomGrid

InitGen ==
    /\ \E c \in -1..MaxGenCount :
         \E d \in [1..Max0(c) -> GenDraws] :
            call = [fn |-> "generateMockLoans", count |-> c, draws |-> d]
    /\ ret = Pending
    /\ AppInit

CallGenerateMockLoans ==
    /\ call.fn = "generateMockLoans"
    /\ ret.outcome = "pending"
    /\ ret' = Returned(generateMockLoans(call.count, call.draws))
    /\ UNCHANGED <<call, appVars>>

NextGen == CallGenerateMockLoans

SpecGen == InitGen /\ [][NextGen]_vars

GenDone == call.fn = "generateMockLoans" /\ ret.outcome = "returned"

\* C4: for every positive integer n, generateMockLoans(n) returns exactly n
\* loans with ids 0..n-1 in order, each with EAD in [500, 5000), LGD 0.6,
\* priorLatePayments in 0..5, pd_base 0 and defaulted equal to
\* (-3 + 0.8 * priorLatePayments + u > 0) for the drawn u.
C4_GeneratedPortfolio ==
    (GenDone /\ call.count >= 1) =>
        /\ Len(ret.value) = call.count
        /\ \A i \in 1..Len(ret.value) :
             LET l == ret.value[i] IN
             /\ l.id = i - 1
             /\ l.EAD >= 500 /\ l.EAD < 5000
             /\ l.LGD = 6
             /\ l.prior_late_payments \in 0..5
             /\ l.pd_base = <<"num", 0>>
             /\ l.defaulted =
                  ((8 * l.prior_late_payments * 1000) + (15 * call.draws[i][3])
                       > 30 * 1000)

\* a call with the largest count returned, with a defaulted and a performing loan
C4_Witness ==
    /\ GenDone
    /\ call.count = MaxGenCount
    /\ \E i, j \in 1..Len(ret.value) :
         ret.value[i].defaulted /\ ~ret.value[j].defaulted

\* C8: generateMockLoans with a zero or negative count fails with InvalidInput;
\* it does not return an empty portfolio.
C8_RejectsNonPositiveCount ==
    (call.fn = "generateMockLoans" /\ call.count <= 0) =>
        ret.outcome # "returned"

(***************************************************************************)
(* trainPDModel.                                                           *)
(***************************************************************************)
intercept0 == -1000000     \* let intercept = -1.0, in millionths
beta0 == 500000            \* let beta = 0.5, in millionths
learningRate == 10         \* 0.01, in thousandths
epochs == 500

\* 1 / (1 + Math.exp(-z)) at z in thousandths, in per mille: exact to the per
\* mille at the knots, never 0 or 1000 (the sigmoid of a finite z is in (0, 1))
SigmoidTable ==
    << <<-7000, 1>>, <<-6000, 2>>, <<-5000, 7>>, <<-4000, 18>>, <<-3000, 47>>,
       <<-2000, 119>>, <<-1000, 269>>, <<0, 500>>, <<1000, 731>>,
       <<2000, 881>>, <<3000, 953>>, <<4000, 982>>, <<5000, 993>>,
       <<6000, 998>>, <<7000, 999>> >>

\* 1 / (1 + Math.exp(-z)), z in millionths, the result in per mille
Sigmoid(z) ==
    IF IsNum(z) THEN Num(Interp(SigmoidTable, z[2] \div 1000))
    ELSE IF z = PosInf THEN Num(1000)
    ELSE IF z = NegInf THEN Num(0)
    ELSE NaN

\* for (const loan of loans) { ... dIntercept += error; dBeta += error * x; }
RECURSIVE GradLoop(_, _, _, _, _, _)
GradLoop(ls, j, intercept, beta, dIntercept, dBeta) ==
    IF j > Len(ls) THEN <<dIntercept, dBeta>>
    ELSE LET x == Num(ls[j].prior_late_payments)
             y == IF ls[j].defaulted THEN Num(1000) ELSE Num(0)
             z == Add(intercept, Mul(beta, x, 1))
             prediction == Sigmoid(z)
             error == Sub(prediction, y)
         IN  GradLoop(ls, j + 1, intercept, beta,
                      Add(dIntercept, error), Add(dBeta, Mul(error, x, 1)))

\* one pass of the body of for (let iter = 0; iter < epochs; iter++) { ... }:
\* the gradient over all loans, then intercept -= ...; beta -= ...
EpochStep(ls, p) ==
    LET g == GradLoop(ls, 1, p.intercept, p.beta, Num(0), Num(0))
        n == Num(Len(ls))
    IN  [intercept |->
             Sub(p.intercept, Div(Mul(Num(learningRate), g[1], 1), n, 1)),
         beta |->
             Sub(p.beta, Div(Mul(Num(learningRate), g[2], 1), n, 1))]

\* k passes of the loop body from p (the body does not read iter): the first
\* k \div 2 passes, then the rest from their result
RECURSIVE EpochLoop(_, _, _)
EpochLoop(ls, k, p) ==
    IF k <= 0 THEN p
    ELSE IF k = 1 THEN EpochStep(ls, p)
    ELSE CHOOSE r \in {EpochLoop(ls, k - (k \div 2), half) :
                           half \in {EpochLoop(ls, k \div 2, p)}} : TRUE

\* the final (intercept, beta) of the gradient descent
TrainedParams(ls) ==
    EpochLoop(ls, epochs, [intercept |-> Num(intercept0), beta |-> Num(beta0)])

\* A faulty variant of ApplyModel: { pd_base: pd, ...loan }, where the loan's
\* own pd_base overwrites the fitted one.
ApplyModelSpreadLast(loan, p) == loan

\* loan => { ...; return { ...loan, pd_base: pd }; }
ApplyModel(loan, p) ==
    [loan EXCEPT !.pd_base =
        Sigmoid(Add(p.intercept, Mul(p.beta, Num(loan.prior_late_payments), 1)))]

\* return loans.map(...)
MapApplyModel(ls, p) == [j \in 1..Len(ls) |-> ApplyModel(ls[j], p)]

trainPDModel(ls) == MapApplyModel(ls, TrainedParams(ls))

(***************************************************************************)
(* SpecTrain: trainPDModel applied to every portfolio of 0..MaxTrainLoans  *)
(* loans that generateMockLoans makes from the draws of TrainDraws.        *)
(***************************************************************************)
TrainDraws == {0, 999} \X RandomGrid \X {0, 500}

InitTrain ==
    /\ \E n \in 0..MaxTrainLoans :
         \E d \in [1..n -> TrainDraws] :
            call = [fn |-> "trainPDModel", loans |-> generateMockLoans(n, d)]
    /\ ret = Pending
    /\ AppInit

CallTrainPDModel ==
    /\ call.fn = "trainPDModel"
    /\ ret.outcome = "pending"
    /\ LET p == TrainedParams(call.loans)
       IN  ret' = ReturnedWith(MapApplyModel(call.loans, p), p)
    /\ UNCHANGED <<call, appVars>>

NextTrain == CallTrainPDModel

SpecTrain == InitTrain /\ [][NextTrain]_vars

TrainDone == call.fn = "trainPDModel" /\ ret.outcome = "returned"

\* C5: trainPDModel returns as many loans as it was given, in the same order;
\* every loan's pd_base is populated (a probability strictly between 0 and 1),
\* is the sigmoid of the final intercept + beta * prior_late_payments, and is
\* the same for loans with equal prior_late_payments; every other field is the
\* input loan's.
C5_TrainFrame ==
    TrainDone =>
        /\ Len(ret.value) = Len(call.loans)
        /\ \A i \in 1..Len(call.loans) :
             LET in == call.loans[i]
                 out == ret.value[i]
             IN  /\ DOMAIN out = DOMAIN in
                 /\ out.id = in.id
                 /\ out.EAD = in.EAD
                 /\ out.LGD = in.LGD
                 /\ out.prior_late_payments = in.prior_late_payments
                 /\ out.defaulted = in.defaulted
                 /\ out.pd_base[1] = "num"
                 /\ out.pd_base[2] > 0 /\ out.pd_base[2] < 1000
                 /\ out.pd_base =
                      Sigmoid(Add(ret.locals.intercept,
                                  Mul(ret.locals.beta,
                                      Num(in.prior_late_payments), 1)))
        /\ \A i, j \in 1..Len(ret.value) :
             ret.value[i].prior_late_payments = ret.value[j].prior_late_payments
                 => ret.value[i].pd_base = ret.value[j].pd_base

\* a full portfolio was trained: the parameters moved, and two loans with
\* different prior_late_payments got different PDs
C5_Witness ==
    /\ TrainDone
    /\ Len(ret.value) = MaxTrainLoans
    /\ ret.locals.intercept # Num(intercept0)
    /\ ret.locals.beta # Num(beta0)
    /\ \E i, j \in 1..Len(ret.value) :
         /\ ret.value[i].prior_late_payments # ret.value[j].prior_late_payments
         /\ ret.value[i].pd_base # ret.value[j].pd_base
         /\ ret.value[i].EAD # ret.value[j].EAD

\* C6: trainPDModel with an empty portfolio is rejected with InvalidInput; it
\* does not return normally and computes no NaN parameters.
C6_RejectsEmptyPortfolio ==
    (call.fn = "trainPDModel" /\ call.loans = <<>>) =>
        ret.outcome # "returned"

(***************************************************************************)
(* The statistics module (utils/statistics: normCDF, normInv) is not among *)
(* the sources; it is modelled from section 4.1 of the specification: the  *)
(* standard normal CDF, non-decreasing, with normCDF(-x) = 1 - normCDF(x), *)
(* and its inverse on (0, 1).  The table holds Phi at its knots to the per *)
(* mille; normInv reads the same table the other way, so that              *)
(* normCDF(normInv(p)) = p at the knots.                                   *)
(***************************************************************************)
NormalTable ==
    << <<-4000, 0>>, <<-3090, 1>>, <<-2326, 10>>, <<-1645, 50>>,
       <<-1282, 100>>, <<-842, 200>>, <<-524, 300>>, <<-253, 400>>,
       <<0, 500>>, <<253, 600>>, <<524, 700>>, <<842, 800>>, <<1282, 900>>,
       <<1645, 950>>, <<2326, 990>>, <<3090, 999>>, <<4000, 1000>> >>

InverseNormalTable ==
    [k \in 1..Len(NormalTable) |-> <<NormalTable[k][2], NormalTable[k][1]>>]

\* Phi(x), x in thousandths, the result in per mille
normCDF(x) ==
    IF IsNum(x) THEN Num(Interp(NormalTable, x[2]))
    ELSE IF x = PosInf THEN Num(1000)
    ELSE IF x = NegInf THEN Num(0)
    ELSE NaN

\* the quantile of p (per mille) in thousandths, for p strictly in (0, 1);
\* outside (0, 1) it "fails (or is undefined)": no specification below
\* calls it there
normInv(p) ==
    IF IsNum(p) /\ p[2] > 0 /\ p[2] < 1000
    THEN Num(Interp(InverseNormalTable, p[2]))
    ELSE NaN

(***************************************************************************)
(* runVasicekSimulation.                                                   *)
(***************************************************************************)
\* Math.sqrt(-2.0 * Math.log(u1)) at u1 in thousandths, in thousandths
RadiusTable ==
    << <<1, 3717>>, <<10, 3035>>, <<100, 2146>>, <<250, 1665>>,
       <<500, 1177>>, <<750, 759>>, <<900, 459>>, <<999, 45>> >>

\* Math.cos(2.0 * Math.PI * u2) at u2 in thousandths, in thousandths
CosTable ==
    << <<0, 1000>>, <<125, 707>>, <<250, 0>>, <<375, -707>>, <<500, -1000>>,
       <<625, -707>>, <<750, 0>>, <<875, 707>>, <<1000, 1000>> >>

\* Z of one iteration from its two draws d = <<u1, u2>>: a draw of exactly 0
\* for u1 is replaced by 1e-9, where Math.sqrt(-2.0 * Math.log(1e-9)) = 6.438
BoxMuller(d) ==
    Mul(Num(IF d[1] = 0 THEN 6438 ELSE Interp(RadiusTable, d[1])),
        Num(Interp(CosTable, d[2])), 1000)

\* const loanParams = loans.map(l => ({ exposure: ..., probitPd: ... }))
LoanParams(ls) ==
    [j \in 1..Len(ls) |->
        [exposure |-> Mul(Num(ls[j].EAD), Num(ls[j].LGD), 10),
         probitPd |-> normInv(ls[j].pd_base)]]

\* A faulty variant of LoansAfterSimulation: the probit of each PD is
\* precomputed in place, loans.forEach(l => { l.pd_base = normInv(l.pd_base) }).
LoansAfterSimulationInPlace(ls) ==
    [j \in 1..Len(ls) |-> [ls[j] EXCEPT !.pd_base = normInv(ls[j].pd_base)]]

\* what the call leaves in the array it was given: loans.map builds a new
\* array, and no statement assigns to loans or to a loan
LoansAfterSimulation(ls) == ls

\* A faulty variant of SystematicComponent: sqrtStress * Z, without sqrtRho.
SystematicComponentNoRho(sqrtRho, sqrtStress, Z) ==
    Mul(sqrtStress, Z, 1000)

\* const systematicComponent = sqrtRho * sqrtStress * Z
SystematicComponent(sqrtRho, sqrtStress, Z) ==
    Mul(Mul(sqrtRho, sqrtStress, 1000), Z, 1000)

\* for (let j = 0; j < loanParams.length; j++) { ...; iterationLoss += ... }
RECURSIVE LossLoop(_, _, _, _, _)
LossLoop(lps, j, systematicComponent, denominator, iterationLoss) ==
    IF j > Len(lps) THEN iterationLoss
    ELSE LET lp == lps[j]
             score == Div(Add(lp.probitPd, systematicComponent),
                          denominator, 1000)
             pdStressed == normCDF(score)
         IN  LossLoop(lps, j + 1, systematicComponent, denominator,
                      Add(iterationLoss, Mul(lp.exposure, pdStressed, 1)))

\* the number of times the body of for (let i = 0; i < iterations; i++) runs
IterationCount(iterations) == Max0(iterations)

\* the losses pushed by the loop, in the order pushed; draws[i] = <<u1, u2>>
\* are the two draws of iteration i - 1
Losses(ls, iterations, rho, stressFactor, draws) ==
    LET sqrtRho == Sqrt(Num(rho), 1000)
        sqrtStress == Sqrt(Num(stressFactor), 1000)
        denominator == Sqrt(Sub(Num(1000), Num(rho)), 1000)
        loanParams == LoanParams(ls)
    IN  <<>> \o [i \in 1..IterationCount(iterations) |->
            LossLoop(loanParams, 1,
                     SystematicComponent(sqrtRho, sqrtStress, BoxMuller(draws[i])),
                     denominator, Num(0))]

\* A faulty variant of Compare: (a, b) => b - a.
CompareDescending(a, b) == Sub(b, a)

\* (a, b) => a - b
Compare(a, b) == Sub(a, b)

\* a comparator's result is negative / is not positive (NaN counts as +0)
Negative(c) == (IsNum(c) /\ c[2] < 0) \/ c = NegInf
NotPositive(c) == ~((IsNum(c) /\ c[2] > 0) \/ c = PosInf)

Range(l) == {l[i] : i \in 1..Len(l)}

\* for each value x of l: how many elements the comparator puts before x, and
\* how many it does not put after x
Ranks(l) ==
    {<<x, Cardinality({i \in 1..Len(l) : Negative(Compare(l[i], x))}),
          Cardinality({i \in 1..Len(l) : NotPositive(Compare(l[i], x))})>> :
        x \in Range(l)}

\* the array in the order of a consistent comparator: position k holds the
\* value with fewer than k elements before it and at least k not after it
SortedByCompare(l) ==
    CHOOSE sorted \in
        {<<>> \o [k \in 1..Len(l) |->
                    (CHOOSE r \in ranks : r[2] < k /\ r[3] >= k)[1]] :
            ranks \in {Ranks(l)}} : TRUE

\* losses.sort((a, b) => a - b): over numbers the comparator is consistent
\* and the order is the ascending one; with a NaN among different values it
\* is not, and the order is implementation-defined (any permutation)
SortOutcomes(l) ==
    IF \A i \in 1..Len(l) : IsNum(l[i]) THEN {SortedByCompare(l)}
    ELSE IF Cardinality(Range(l)) = 1 THEN {l}
    ELSE {[k \in 1..Len(l) |-> l[f[k]]] : f \in Permutations(1..Len(l))}

\* losses.reduce((sum, l) => sum + l, 0), the sum of l[lo..hi] by halves
RECURSIVE SumRange(_, _, _)
SumRange(l, lo, hi) ==
    IF lo > hi THEN Num(0)
    ELSE IF lo = hi THEN l[lo]
    ELSE Add(SumRange(l, lo, (lo + hi) \div 2),
             SumRange(l, ((lo + hi) \div 2) + 1, hi))

\* A faulty variant of VarIndex: the index of the largest loss.
VarIndexLast(iterations) == iterations - 1

\* Math.floor(iterations * 0.99)
VarIndex(iterations) == (iterations * 99) \div 100

\* const var99 = losses[varIndex]
Var99(losses, iterations) ==
    IF VarIndex(iterations) \in 0..(Len(losses) - 1)
    THEN losses[VarIndex(iterations) + 1]
    ELSE Undefined

\* the SimulationResult, losses being the array after losses.sort
SimulationResult(losses, iterations, stressFactor, scenarioName) ==
    [scenarioName |-> scenarioName,
     stressFactor |-> stressFactor,
     meanEL |-> Div(SumRange(losses, 1, Len(losses)), Num(iterations), 1),
     var99 |-> Var99(losses, iterations),
     losses |-> losses]

\* every result runVasicekSimulation can return
runVasicekSimulation(ls, iterations, rho, stressFactor, scenarioName, draws) ==
    UNION {{SimulationResult(sorted, iterations, stressFactor, scenarioName) :
               sorted \in SortOutcomes(losses)} :
           losses \in {Losses(ls, iterations, rho, stressFactor, draws)}}

(***************************************************************************)
(* SpecSim: runVasicekSimulation applied to portfolios of 0..MaxSimLoans   *)
(* loans with EAD 1000, 2000, ... and the PDs of PDGrid in turn, to rho    *)
(* and stressFactor inside and outside their contract, and to iterations   *)
(* in -1..MaxIter with every sequence of draws, and iterations = LongRun   *)
(* with the same draws in every iteration but one.                         *)
(***************************************************************************)
PDGrid == <<10, 50, 100>>

SimPortfolio(n, shift) ==
    [j \in 1..n |->
        [id |-> j - 1, EAD |-> 1000 * j, LGD |-> LGD,
         prior_late_payments |-> (j + shift) % 6,
         pd_base |-> Num(PDGrid[((j - 1 + shift) % Len(PDGrid)) + 1]),
         defaulted |-> FALSE]]

SimRhos == {-100, 0, 200, 1000, 1200}
SimStressFactors == {-1000, 0, 1000, 2500}
SimDraws == {0, 500} \X {0, 500}

DrawSequences(iterations) ==
    IF iterations <= MaxIter THEN [1..Max0(iterations) -> SimDraws]
    ELSE {[i \in 1..iterations |-> IF i = k THEN <<0, 0>> ELSE p] :
             p \in SimDraws, k \in {1, iterations}}

InitSim ==
    /\ \E n \in 0..MaxSimLoans, shift \in 0..(Len(PDGrid) - 1) :
       \E iterations \in (-1..MaxIter) \cup {LongRun} :
       \E rho \in SimRhos, stressFactor \in SimStressFactors :
       \E draws \in DrawSequences(iterations) :
          call = [fn |-> "runVasicekSimulation",
                  loans |-> SimPortfolio(n, shift),
                  iterations |-> iterations,
                  rho |-> rho,
                  stressFactor |-> stressFactor,
                  scenarioName |-> "Scenario",
                  draws |-> draws]
    /\ ret = Pending
    /\ AppInit

CallRunVasicekSimulation ==
    /\ call.fn = "runVasicekSimulation"
    /\ ret.outcome = "pending"
    /\ \E r \in runVasicekSimulation(call.loans, call.iterations, call.rho,
                                     call.stressFactor, call.scenarioName,
                                     call.draws) :
          ret' = Returned(r)
    /\ UNCHANGED <<call, appVars>>

NextSim == CallRunVasicekSimulation

SpecSim == InitSim /\ [][NextSim]_vars

SimDone == call.fn = "runVasicekSimulation" /\ ret.outcome = "returned"

\* the contract of section 4.4 on rho and stressFactor
InContract == call.rho >= 0 /\ call.rho < 1000 /\ call.stressFactor >= 0

C2_Var99IsFloorIndex ==
    (SimDone /\ call.iterations >= 1) =>
        ret.value.var99 = ret.value.losses[((call.iterations * 99) \div 100) + 1]

\* a long run whose 99th percentile is neither its largest loss nor its mean
C2_Witness ==
    /\ SimDone
    /\ InContract
    /\ call.iterations = LongRun
    /\ ret.value.var99 # ret.value.losses[LongRun]
    /\ ret.value.var99 # ret.value.meanEL

\* the sum over loans j..Len(ls) of EAD * LGD * pd_base, in thousandths of a dollar
RECURSIVE UnstressedLoss(_, _)
UnstressedLoss(ls, j) ==
    IF j > Len(ls) THEN 0
    ELSE ((ls[j].EAD * 6 * ls[j].pd_base[2]) \div 10) + UnstressedLoss(ls, j + 1)

C7_RejectsInvalidParameters ==
    ( /\ call.fn = "runVasicekSimulation"
      /\ (call.rho >= 1000 \/ call.rho < 0 \/ call.iterations <= 0) )
    => ret.outcome # "returned"

(***************************************************************************)
(* SpecApp: the component App.  One action per handler: the mount effect,  *)
(* the button's click (runSimulations) and the callback it schedules with  *)
(* setTimeout.  JavaScript runs each to completion, one at a time.         *)
(***************************************************************************)
RHO == 200            \* 0.2, in thousandths

AppGenDraws == {<<0, 0, 0>>, <<999, 500, 500>>, <<500, 999, 0>>}
AppSimDraws == {<<0, 0>>, <<500, 500>>}

InitApp ==
    /\ call = NoCall
    /\ ret = Pending
    /\ AppInit

\* useEffect(() => { ... }, []): runs once, after the first render
MountEffectPending == ~isModelTrained

MountEffect ==
    /\ MountEffectPending
    /\ \E draws \in [1..NUM_LOANS -> AppGenDraws] :
          LET rawLoans == generateMockLoans(NUM_LOANS, draws)
              trainedLoans == trainPDModel(rawLoans)
          IN  loans' = trainedLoans
    /\ isModelTrained' = TRUE
    /\ trainCalls' = trainCalls + 1
    /\ UNCHANGED <<call, ret, isSimulating, baselineResult, stressedResult,
                   timers, simInputs, runs>>

\* A faulty variant of ButtonDisabled: disabled={!isModelTrained}.
ButtonDisabledUntilTrained == ~isModelTrained

\* <button onClick={runSimulations} disabled={!isModelTrained || isSimulating}>
ButtonDisabled == ~isModelTrained \/ isSimulating

\* a click on the enabled button: runSimulations up to the setTimeout call
Click ==
    /\ ~ButtonDisabled
    /\ runs < MaxRuns
    /\ IF Len(loans) = 0
       THEN UNCHANGED <<isSimulating, timers, runs>>
       ELSE /\ isSimulating' = TRUE
            /\ timers' = Append(timers, loans)
            /\ runs' = runs + 1
    /\ UNCHANGED <<call, ret, loans, isModelTrained, baselineResult,
                   stressedResult, trainCalls, simInputs>>

\* the callback given to setTimeout: both scenarios on the loans the closure
\* captured, which is the array the state holds
TimeoutCallback ==
    /\ timers # <<>>
    /\ LET captured == Head(timers)
           afterBase == LoansAfterSimulation(captured)
           afterStress == LoansAfterSimulation(afterBase)
       IN  /\ \E d1 \in [1..ITERATIONS -> AppSimDraws] :
              \E resBase \in runVasicekSimulation(captured, ITERATIONS, RHO,
                                 1000, "Baseline Scenario", d1) :
                 baselineResult' = resBase
           /\ \E d2 \in [1..ITERATIONS -> AppSimDraws] :
              \E resStress \in runVasicekSimulation(afterBase, ITERATIONS, RHO,
                                 2500, "Severe Downturn", d2) :
                 stressedResult' = resStress
           /\ simInputs' = <<captured, afterBase>>
           /\ loans' = afterStress
    /\ isSimulating' = FALSE
    /\ timers' = Tail(timers)
    /\ UNCHANGED <<call, ret, isModelTrained, trainCalls, runs>>

NextApp == MountEffect \/ Click \/ TimeoutCallback

SpecApp == InitApp /\ [][NextApp]_vars

\* C9: each loan's pd_base is written once, by the single trainPDModel call of
\* the mount effect; from then on no step changes the trained portfolio (no
\* field, order or length), and each run gives the baseline and the stressed
\* scenario that same portfolio, without re-training.
C9_TrainedPortfolioReadOnly ==
    [][ /\ isModelTrained => (loans' = loans /\ trainCalls' = trainCalls)
        /\ trainCalls' # trainCalls =>
             /\ trainCalls' = 1
             /\ loans = <<>>
             /\ \A j \in 1..Len(loans') :
                   loans'[j].pd_base[2] > 0 /\ loans'[j].pd_base[2] < 1000
        /\ Len(timers') < Len(timers) =>
             simInputs' = <<loans, loans>> ]_vars

\* MaxRuns runs are done, on a trained portfolio of NUM_LOANS loans
C9_Witness ==
    /\ runs = MaxRuns
    /\ ~isSimulating
    /\ Len(loans) = NUM_LOANS
    /\ simInputs = <<loans, loans>>
    /\ baselineResult # Null /\ baselineResult.stressFactor = 1000
    /\ stressedResult # Null /\ stressedResult.stressFactor = 2500
    /\ baselineResult.losses # stressedResult.losses

\* C10: at most one run is pending or executing: there is a scheduled callback
\* exactly while isSimulating, never two, and whenever isSimulating is false
\* after a run both results are set.
C10_OneRunAtATime ==
    /\ Len(timers) <= 1
    /\ isSimulating <=> (Len(timers) = 1)
    /\ (~isSimulating /\ runs > 0) =>
          (baselineResult # Null /\ stressedResult # Null)
    /\ (runs = 0) => (baselineResult = Null /\ stressedResult = Null)

\* a second run is pending, the results of the first still shown
C10_Witness ==
    /\ runs = 2
    /\ isSimulating
    /\ Len(timers) = 1
    /\ baselineResult # Null
    /\ stressedResult # Null

====
